---- MODULE Spec2Model ----
(***************************************************************************)
(* screenpadctl: a command-line tool that reads and writes the brightness  *)
(* of a screenpad through one control file, keeps a one-slot backup file   *)
(* of the brightness to restore, and a config with two increments.         *)
(*                                                                         *)
(* Files hold decimal text (sequences of one-character strings); the       *)
(* program formats with to_string and parses with parse::<i16>.            *)
(* Assumptions: file I/O on existing paths succeeds, and the directory of  *)
(* the backup path exists (the path is taken literally).                   *)
(***************************************************************************)
EXTENDS Integers, Sequences, FiniteSets, TLC

VARIABLES
    ctrlFile,    \* text of BRIGHTNESS_CTRL_FILE
    backupFile,  \* BRIGHTNESS_BACKUP_FILE: [exists, text]
    cfg,         \* persisted Config: [positive_increment, negative_increment]
    args,        \* argv[1..] of the most recent sequential invocation
    outcome,     \* what that invocation reported
    count,       \* invocations run so far
    window,      \* how many of the most recent invocations hist records
    hist,        \* the most recent invocations: [cmd, pre]
    proc,        \* interleaved invocations: per process its position and locals
    log          \* the interleaved invocations in start order: [cmd, pre, overlap]

vars == <<ctrlFile, backupFile, cfg, args, outcome, count, window, hist, proc, log>>

seqVars == <<args, outcome, count, window, hist>>
concVars == <<proc, log>>

----------------------------------------------------------------------------
(* Bounds and input samples *)

HistLen == 3
MaxCmds == 4
MaxRuns == 3

I16Min == -32768
I16Max == 32767

InitBrightness == {0, 1, 50, 250}
InitBackup == {0, 100}
SetValues == {-1, 0, 1, 50, 255, 256, 300, 40000}
IncValues == {-32768, -15, 15, 32767}

----------------------------------------------------------------------------
(* Decimal text *)

Digits == <<"0", "1", "2", "3", "4", "5", "6", "7", "8", "9">>

RECURSIVE Dec(_)
Dec(n) == IF n < 10 THEN <<Digits[n + 1]>>
          ELSE Dec(n \div 10) \o <<Digits[(n % 10) + 1]>>

\* i16::to_string
to_string(n) == IF n < 0 THEN <<"-">> \o Dec(0 - n) ELSE Dec(n)

DigitVal(c) == CHOOSE d \in 0..9 : Digits[d + 1] = c

IsDigit(c) == \E d \in 1..10 : Digits[d] = c

RECURSIVE Magnitude(_)
Magnitude(s) == IF s = <<>> THEN 0
                ELSE 10 * Magnitude(SubSeq(s, 1, Len(s) - 1)) + DigitVal(s[Len(s)])

ParseErr == [ok |-> FALSE, val |-> 0]

\* str::parse::<i16>: optional sign, at least one digit, digits only, in range
parse_i16(s) ==
    LET signed == s /= <<>> /\ s[1] \in {"-", "+"}
        body   == IF signed THEN Tail(s) ELSE s
        neg    == signed /\ s[1] = "-"
    IN IF body = <<>> \/ \E i \in 1..Len(body) : ~IsDigit(body[i])
       THEN ParseErr
       ELSE LET v == IF neg THEN 0 - Magnitude(body) ELSE Magnitude(body)
            IN IF v < I16Min \/ v > I16Max THEN ParseErr
               ELSE [ok |-> TRUE, val |-> v]

\* if s.ends_with('\n') { s.pop(); }
strip_newline(s) == IF s /= <<>> /\ s[Len(s)] = "\n"
                    THEN SubSeq(s, 1, Len(s) - 1) ELSE s

NoFile == [exists |-> FALSE, text |-> <<>>]
File(t) == [exists |-> TRUE, text |-> t]

----------------------------------------------------------------------------
(* Brightness controller *)

\* get_brightness: read the control file, strip one newline, parse; ~ok is a panic
get_brightness(ctrl) == parse_i16(strip_newline(ctrl))

\* overwrite_brightness: the text written to the control file, no range check
overwrite_brightness(value) == to_string(value)

\* i16 + i16: the sum when it fits; on overflow the build decides between a
\* panic (overflow checks on) and two's-complement wrapping (checks off)
add_i16(a, b) ==
    LET sum == a + b
    IN IF sum >= I16Min /\ sum <= I16Max THEN {[ok |-> TRUE, val |-> sum]}
       ELSE {[ok |-> FALSE, val |-> 0],
             [ok |-> TRUE, val |-> ((sum - I16Min) % 65536) + I16Min]}

increment_brightness_unchecked(ctrl, value) ==
    LET cur == get_brightness(ctrl)
    IN IF ~cur.ok THEN {[ctrl |-> ctrl, panic |-> TRUE]}
       ELSE {IF ~s.ok THEN [ctrl |-> ctrl, panic |-> TRUE]
             ELSE IF s.val <= 255
                  THEN [ctrl |-> overwrite_brightness(s.val), panic |-> FALSE]
                  ELSE [ctrl |-> ctrl, panic |-> FALSE] : s \in add_i16(cur.val, value)}

\* increment_brightness: the possible results, [ctrl, panic]
increment_brightness(ctrl, value) ==
    LET cur == get_brightness(ctrl)
    IN IF ~cur.ok THEN {[ctrl |-> ctrl, panic |-> TRUE]}
       ELSE {IF ~s.ok THEN [ctrl |-> ctrl, panic |-> TRUE]
             ELSE IF s.val <= 255 /\ s.val >= 0
                  THEN [ctrl |-> overwrite_brightness(s.val), panic |-> FALSE]
                  ELSE [ctrl |-> ctrl, panic |-> FALSE] : s \in add_i16(cur.val, value)}

backup_brightness_zero(ctrl, backup) ==
    LET cur == get_brightness(ctrl)
    IN IF ~cur.ok THEN [backup |-> backup, panic |-> TRUE]
       ELSE [backup |-> File(to_string(0)), panic |-> FALSE]

\* backup_brightness: create the backup file if absent, then overwrite it
\* with the current brightness
backup_brightness(ctrl, backup) ==
    LET cur == get_brightness(ctrl)
    IN IF ~cur.ok THEN [backup |-> backup, panic |-> TRUE]
       ELSE [backup |-> File(to_string(cur.val)), panic |-> FALSE]

\* restore_brightness: parse the backup file; ~ok is a panic (missing or unparsable)
restore_brightness(backup) ==
    IF ~backup.exists THEN ParseErr
    ELSE parse_i16(strip_newline(backup.text))

\* ScreenState of a brightness value
state_of(b) == CASE b = 0 -> "Off"
                 [] b = 1 -> "Dim"
                 [] OTHER -> "On"

\* screen_state: "Panic" when the control file cannot be parsed
screen_state(ctrl) ==
    LET cur == get_brightness(ctrl)
    IN IF cur.ok THEN state_of(cur.val) ELSE "Panic"

----------------------------------------------------------------------------
(* Command dispatcher: one invocation runs to completion *)

Pos == <<"p", "o", "s">>
Neg == <<"n", "e", "g">>
Junk == <<"x">>

\* argv[1..]: the command name and the texts of its sub-arguments
Argv(c, rest) == [cmd |-> c, rest |-> rest]

\* current_state as main samples it before dispatch
current_state == screen_state(ctrlFile)

\* the files and config an arm leaves behind, and what it reported
Res(c, b, g, o) == [ctrl |-> c, backup |-> b, cfg |-> g, out |-> o]

Same(o) == Res(ctrlFile, backupFile, cfg, o)

\* "b"
b_arm == {Same(IF get_brightness(ctrlFile).ok THEN "printed" ELSE "panic")}

\* "bup"
bup_arm ==
    {Res(r.ctrl, backupFile, cfg, IF r.panic THEN "panic" ELSE "success") :
        r \in increment_brightness(ctrlFile, cfg.positive_increment)}

\* "bdown"
bdown_arm ==
    {Res(r.ctrl, backupFile, cfg, IF r.panic THEN "panic" ELSE "success") :
        r \in increment_brightness(ctrlFile, cfg.negative_increment)}

\* "bconfig"
bconfig_arm(rest) ==
    IF Len(rest) + 2 <= 3 THEN {Same("error")}
    ELSE LET value == parse_i16(rest[2])
         IN IF ~value.ok THEN {Same("panic")}
            ELSE IF rest[1] = Pos
                 THEN {Res(ctrlFile, backupFile,
                           [cfg EXCEPT !.positive_increment = value.val], "success")}
            ELSE IF rest[1] = Neg
                 THEN {Res(ctrlFile, backupFile,
                           [cfg EXCEPT !.negative_increment = value.val], "success")}
            ELSE {Same("error")}

bset_arm_unchecked(rest) ==
    IF Len(rest) + 2 <= 2 THEN {Same("error")}
    ELSE LET value == parse_i16(rest[1])
         IN IF ~value.ok THEN {Same("error")}
            ELSE {Res(overwrite_brightness(value.val), backupFile, cfg, "success")}

\* "bset"
bset_arm(rest) ==
    IF Len(rest) + 2 <= 2 THEN {Same("error")}
    ELSE LET value == parse_i16(rest[1])
         IN IF ~value.ok THEN {Same("error")}
            ELSE IF value.val > 255 \/ value.val < 0 THEN {Same("error")}
            ELSE {Res(overwrite_brightness(value.val), backupFile, cfg, "success")}

\* restore then write, as the "on", "toggle" and "cycle" arms do
restore_and_write(msg) ==
    LET prev == restore_brightness(backupFile)
    IN IF ~prev.ok THEN Same("panic")
       ELSE Res(overwrite_brightness(prev.val), backupFile, cfg, msg)

\* backup then write, as the "off", "toggle", "dim" and "cycle" arms do
backup_and_write(value, msg) ==
    LET b == backup_brightness(ctrlFile, backupFile)
    IN IF b.panic THEN Same("panic")
       ELSE Res(overwrite_brightness(value), b.backup, cfg, msg)

on_arm_unguarded == {restore_and_write("success")}

\* "on"
on_arm ==
    IF current_state = "On" THEN {Same("error")}
    ELSE {restore_and_write("success")}

off_arm_unguarded == {backup_and_write(0, "success")}

\* "off"
off_arm ==
    IF current_state = "Off" THEN {Same("error")}
    ELSE {backup_and_write(0, "success")}

toggle_arm_else ==
    IF current_state = "On" THEN {backup_and_write(0, "success")}
    ELSE {restore_and_write("success")}

\* "toggle"
toggle_arm ==
    IF current_state = "On" THEN {backup_and_write(0, "success")}
    ELSE IF current_state = "Off" THEN {restore_and_write("success")}
    ELSE {Same("silent")}

dim_arm_always_backup ==
    IF current_state = "Dim" THEN {Same("silent")}
    ELSE {backup_and_write(1, "success")}

\* "dim"
dim_arm ==
    IF current_state = "Dim" THEN {Same("silent")}
    ELSE IF current_state = "On" THEN {backup_and_write(1, "success")}
    ELSE {Res(overwrite_brightness(1), backupFile, cfg, "success")}

cycle_arm_no_backup ==
    CASE current_state = "On" ->
            {Res(overwrite_brightness(1), backupFile, cfg, "success")}
      [] current_state = "Dim" ->
            {Res(overwrite_brightness(0), backupFile, cfg, "success")}
      [] OTHER -> {restore_and_write("success")}

\* "cycle"
cycle_arm ==
    CASE current_state = "On" -> {backup_and_write(1, "success")}
      [] current_state = "Dim" ->
            {Res(overwrite_brightness(0), backupFile, cfg, "success")}
      [] OTHER -> {restore_and_write("success")}

\* the bounded record of the most recent invocations
Push(h, e) == IF window = 0 THEN h
              ELSE IF Len(h) < window THEN Append(h, e)
              ELSE Append(Tail(h), e)

\* the brightness value in the control file
Brightness == get_brightness(ctrlFile).val

Finish(a, r) ==
    /\ count < MaxCmds
    /\ count' = count + 1
    /\ UNCHANGED window
    /\ ctrlFile' = r.ctrl
    /\ backupFile' = r.backup
    /\ cfg' = r.cfg
    /\ args' = a
    /\ outcome' = r.out
    /\ hist' = Push(hist, [cmd |-> a.cmd, pre |-> Brightness])
    /\ UNCHANGED concVars

\* main after the argument-count check: screen_state() runs first and its
\* panic ends the invocation; otherwise the arm's results stand
Results(results) ==
    IF current_state = "Panic" THEN {Same("panic")} ELSE results

\* args.len() < 2
NoCommand == Finish(Argv("(none)", <<>>), Same("error"))

B == \E r \in Results(b_arm) : Finish(Argv("b", <<>>), r)
Bup == \E r \in Results(bup_arm) : Finish(Argv("bup", <<>>), r)
Bdown == \E r \in Results(bdown_arm) : Finish(Argv("bdown", <<>>), r)

BconfigArgs ==
    {<<>>, <<Pos>>, <<Junk, to_string(15)>>, <<Pos, Junk>>}
        \cup {<<op, to_string(v)>> : op \in {Pos, Neg}, v \in IncValues}

Bconfig ==
    \E rest \in BconfigArgs :
        \E r \in Results(bconfig_arm(rest)) : Finish(Argv("bconfig", rest), r)

BsetArgs == {<<>>, <<Junk>>} \cup {<<to_string(v)>> : v \in SetValues}

Bset ==
    \E rest \in BsetArgs :
        \E r \in Results(bset_arm(rest)) : Finish(Argv("bset", rest), r)

On == \E r \in Results(on_arm) : Finish(Argv("on", <<>>), r)
Off == \E r \in Results(off_arm) : Finish(Argv("off", <<>>), r)
Toggle == \E r \in Results(toggle_arm) : Finish(Argv("toggle", <<>>), r)
Dim == \E r \in Results(dim_arm) : Finish(Argv("dim", <<>>), r)
Cycle == \E r \in Results(cycle_arm) : Finish(Argv("cycle", <<>>), r)
Help == \E r \in Results({Same("printed")}) : Finish(Argv("help", <<>>), r)
Invalid == \E r \in Results({Same("error")}) : Finish(Argv("frobnicate", <<>>), r)

\* Config::default
DefaultConfig == [positive_increment |-> 15, negative_increment |-> -15]

IdleProc == [pc |-> "idle", cmd |-> "", current_state |-> "",
             current_brightness |-> 0, value |-> 0, out |-> ""]
Procs == {1, 2}

InitFiles(values) ==
    /\ ctrlFile \in {to_string(v) : v \in values}
                     \cup {to_string(v) \o <<"\n">> : v \in values}
    /\ backupFile \in {NoFile} \cup {File(to_string(v)) : v \in InitBackup}
    /\ cfg = DefaultConfig

InitSeq(values) ==
    /\ InitFiles(values)
    /\ args = Argv("(none)", <<>>)
    /\ outcome = ""
    /\ count = 0
    /\ hist = <<>>
    /\ proc = [p \in Procs |-> IdleProc]
    /\ log = <<>>

Init == InitSeq(InitBrightness) /\ window = 0

Next ==
    \/ NoCommand
    \/ B
    \/ Bup
    \/ Bdown
    \/ Bconfig
    \/ Bset
    \/ On
    \/ Off
    \/ Toggle
    \/ Dim
    \/ Cycle
    \/ Help
    \/ Invalid

Spec == Init /\ [][Next]_vars

(* The power commands alone, with the recent invocations recorded *)

PowerBrightness == {0, 1, 2, 50, 250, 255}

InitPower == InitSeq(PowerBrightness) /\ window = HistLen

PowerSetArgs == {<<to_string(v)>> : v \in {0, 1, 50}}

BsetPower ==
    \E rest \in PowerSetArgs :
        \E r \in Results(bset_arm(rest)) : Finish(Argv("bset", rest), r)

NextPower ==
    \/ BsetPower
    \/ On
    \/ Off
    \/ Toggle
    \/ Dim
    \/ Cycle

SpecPower == InitPower /\ [][NextPower]_vars

----------------------------------------------------------------------------
(* Invocations of separate processes, interleaved at single file reads and  *)
(* writes.  Nothing locks the files.                                       *)

ConcCommands == {"on", "off", "toggle", "dim", "cycle"}
ConcBrightness == {50, 250}

Busy(p) == proc[p].pc \notin {"idle", "done"}

AllDone == \A p \in Procs : ~Busy(p)

Done(p, o) == [proc[p] EXCEPT !.pc = "done", !.out = o]

\* a process is launched with a command
Start(p) ==
    /\ ~Busy(p)
    /\ Len(log) < MaxRuns
    /\ \E c \in ConcCommands :
        /\ proc' = [proc EXCEPT ![p] = [IdleProc EXCEPT !.pc = "sample", !.cmd = c]]
        /\ log' = Append(log, [cmd |-> c, pre |-> Brightness,
                                overlap |-> \E q \in Procs \ {p} : Busy(q)])
    /\ UNCHANGED <<ctrlFile, backupFile, cfg, seqVars>>

dispatch_off_unguarded(c, st) ==
    CASE st = "Panic" -> [pc |-> "done", value |-> 0, out |-> "panic"]
      [] c = "on" /\ st = "On" -> [pc |-> "done", value |-> 0, out |-> "error"]
      [] c = "on" -> [pc |-> "restore_read", value |-> 0, out |-> ""]
      [] c = "off" -> [pc |-> "backup_read", value |-> 0, out |-> ""]
      [] c = "toggle" /\ st = "On" -> [pc |-> "backup_read", value |-> 0, out |-> ""]
      [] c = "toggle" /\ st = "Off" -> [pc |-> "restore_read", value |-> 0, out |-> ""]
      [] c = "toggle" -> [pc |-> "done", value |-> 0, out |-> "silent"]
      [] c = "dim" /\ st = "Dim" -> [pc |-> "done", value |-> 0, out |-> "silent"]
      [] c = "dim" /\ st = "On" -> [pc |-> "backup_read", value |-> 1, out |-> ""]
      [] c = "dim" -> [pc |-> "write", value |-> 1, out |-> ""]
      [] c = "cycle" /\ st = "On" -> [pc |-> "backup_read", value |-> 1, out |-> ""]
      [] c = "cycle" /\ st = "Dim" -> [pc |-> "write", value |-> 0, out |-> ""]
      [] OTHER -> [pc |-> "restore_read", value |-> 0, out |-> ""]

\* the match on args[1] and current_state: where the arm goes first and
\* the value it will write after a backup
dispatch(c, st) ==
    CASE st = "Panic" -> [pc |-> "done", value |-> 0, out |-> "panic"]
      [] c = "on" /\ st = "On" -> [pc |-> "done", value |-> 0, out |-> "error"]
      [] c = "on" -> [pc |-> "restore_read", value |-> 0, out |-> ""]
      [] c = "off" /\ st = "Off" -> [pc |-> "done", value |-> 0, out |-> "error"]
      [] c = "off" -> [pc |-> "backup_read", value |-> 0, out |-> ""]
      [] c = "toggle" /\ st = "On" -> [pc |-> "backup_read", value |-> 0, out |-> ""]
      [] c = "toggle" /\ st = "Off" -> [pc |-> "restore_read", value |-> 0, out |-> ""]
      [] c = "toggle" -> [pc |-> "done", value |-> 0, out |-> "silent"]
      [] c = "dim" /\ st = "Dim" -> [pc |-> "done", value |-> 0, out |-> "silent"]
      [] c = "dim" /\ st = "On" -> [pc |-> "backup_read", value |-> 1, out |-> ""]
      [] c = "dim" -> [pc |-> "write", value |-> 1, out |-> ""]
      [] c = "cycle" /\ st = "On" -> [pc |-> "backup_read", value |-> 1, out |-> ""]
      [] c = "cycle" /\ st = "Dim" -> [pc |-> "write", value |-> 0, out |-> ""]
      [] OTHER -> [pc |-> "restore_read", value |-> 0, out |-> ""]

\* let current_state = screen_state(); then the match picks the arm
Sample(p) ==
    /\ proc[p].pc = "sample"
    /\ LET st == screen_state(ctrlFile)
           d  == dispatch(proc[p].cmd, st)
       IN proc' = [proc EXCEPT ![p] = [@ EXCEPT !.current_state = st, !.pc = d.pc,
                                                !.value = d.value, !.out = d.out]]
    /\ UNCHANGED <<ctrlFile, backupFile, cfg, seqVars, log>>

\* backup_brightness: let current_brightness = get_brightness()
BackupRead(p) ==
    /\ proc[p].pc = "backup_read"
    /\ LET cur == get_brightness(ctrlFile)
       IN proc' = [proc EXCEPT ![p] =
                    IF cur.ok THEN [@ EXCEPT !.current_brightness = cur.val,
                                             !.pc = "backup_exists"]
                    ELSE Done(p, "panic")]
    /\ UNCHANGED <<ctrlFile, backupFile, cfg, seqVars, log>>

\* backup_brightness: Path::new(BRIGHTNESS_BACKUP_FILE).exists()
BackupExists(p) ==
    /\ proc[p].pc = "backup_exists"
    /\ proc' = [proc EXCEPT ![p].pc = IF backupFile.exists THEN "backup_write"
                                       ELSE "backup_create"]
    /\ UNCHANGED <<ctrlFile, backupFile, cfg, seqVars, log>>

\* backup_brightness: fs::File::create creates the file or truncates it
BackupCreate(p) ==
    /\ proc[p].pc = "backup_create"
    /\ backupFile' = File(<<>>)
    /\ proc' = [proc EXCEPT ![p].pc = "backup_write"]
    /\ UNCHANGED <<ctrlFile, cfg, seqVars, log>>

\* backup_brightness: fs::write(BRIGHTNESS_BACKUP_FILE, current_brightness.to_string())
BackupWrite(p) ==
    /\ proc[p].pc = "backup_write"
    /\ backupFile' = File(to_string(proc[p].current_brightness))
    /\ proc' = [proc EXCEPT ![p].pc = "write"]
    /\ UNCHANGED <<ctrlFile, cfg, seqVars, log>>

\* restore_brightness: read and parse the backup file
RestoreRead(p) ==
    /\ proc[p].pc = "restore_read"
    /\ LET prev == restore_brightness(backupFile)
       IN proc' = [proc EXCEPT ![p] =
                    IF prev.ok THEN [@ EXCEPT !.value = prev.val, !.pc = "write"]
                    ELSE Done(p, "panic")]
    /\ UNCHANGED <<ctrlFile, backupFile, cfg, seqVars, log>>

\* overwrite_brightness(value); print_success
Write(p) ==
    /\ proc[p].pc = "write"
    /\ ctrlFile' = overwrite_brightness(proc[p].value)
    /\ proc' = [proc EXCEPT ![p] = Done(p, "success")]
    /\ UNCHANGED <<backupFile, cfg, seqVars, log>>

InitConc ==
    /\ ctrlFile \in {to_string(v) \o <<"\n">> : v \in ConcBrightness}
    /\ backupFile \in {NoFile, File(to_string(100))}
    /\ cfg = DefaultConfig
    /\ args = Argv("(none)", <<>>)
    /\ outcome = ""
    /\ count = 0
    /\ window = 0
    /\ hist = <<>>
    /\ proc = [p \in Procs |-> IdleProc]
    /\ log = <<>>

NextConc ==
    \E p \in Procs :
        \/ Start(p)
        \/ Sample(p)
        \/ BackupRead(p)
        \/ BackupExists(p)
        \/ BackupCreate(p)
        \/ BackupWrite(p)
        \/ RestoreRead(p)
        \/ Write(p)

SpecConc == InitConc /\ [][NextConc]_vars

----------------------------------------------------------------------------
(* Properties *)

IsOn(v) == state_of(v) = "On"

\* the step is one invocation of command c
Ran(c) == count' = count + 1 /\ args'.cmd = c

\* the i-th most recent recorded invocation (1 = the latest)
Recent(i) == hist[Len(hist) + 1 - i]

\* C1: for every brightness v in 2..255, `off` leaves the control file at 0
\* and the backup file at v, and an `on` right after it leaves the control
\* file at exactly v.
C1_OffOnRoundTrip ==
    /\ (Len(hist) >= 1 /\ Recent(1).cmd = "off" /\ Recent(1).pre \in 2..255)
        => /\ ctrlFile = to_string(0)
           /\ backupFile = File(to_string(Recent(1).pre))
    /\ (Len(hist) >= 2 /\ Recent(2).cmd = "off" /\ Recent(2).pre \in 2..255
            /\ Recent(1).cmd = "on")
        => /\ Recent(1).pre = 0
           /\ ctrlFile = to_string(Recent(2).pre)
           /\ outcome = "success"

C1_Witness ==
    /\ Len(hist) >= 2
    /\ Recent(2) = [cmd |-> "off", pre |-> 50]
    /\ Recent(1) = [cmd |-> "on", pre |-> 0]
    /\ ctrlFile = to_string(50)
    /\ backupFile = File(to_string(50))

\* C2: three consecutive `cycle` commands from On with brightness v pass
\* through brightness 1, then 0, and end with the control file holding v,
\* whatever the backup file held before the first of them.
C2_CycleClosure ==
    /\ (Len(hist) >= 1 /\ Recent(1).cmd = "cycle" /\ IsOn(Recent(1).pre))
        => ctrlFile = to_string(1)
    /\ (Len(hist) >= 2 /\ Recent(2).cmd = "cycle" /\ IsOn(Recent(2).pre)
            /\ Recent(1).cmd = "cycle")
        => Recent(1).pre = 1 /\ ctrlFile = to_string(0)
    /\ (Len(hist) >= 3 /\ Recent(3).cmd = "cycle" /\ IsOn(Recent(3).pre)
            /\ Recent(2).cmd = "cycle" /\ Recent(1).cmd = "cycle")
        => /\ Recent(2).pre = 1
           /\ Recent(1).pre = 0
           /\ ctrlFile = to_string(Recent(3).pre)

C2_Witness ==
    /\ Len(hist) = 3
    /\ Recent(3) = [cmd |-> "cycle", pre |-> 250]
    /\ Recent(2) = [cmd |-> "cycle", pre |-> 1]
    /\ Recent(1) = [cmd |-> "cycle", pre |-> 0]
    /\ count = 3
    /\ ctrlFile = to_string(250)

\* the brightness after the i-th most recent recorded invocation
PostOf(i) == IF i = 1 THEN Brightness ELSE Recent(i - 1).pre

\* the i-th most recent recorded invocation took the screen out of On
LeftOn(i) == IsOn(Recent(i).pre) /\ ~IsOn(PostOf(i))

\* C3: whenever the screen is not On but was On earlier, the backup file
\* exists and holds the brightness the control file held right before the
\* most recent command that took the screen out of On.
C3_BackupIsLastOnBrightness ==
    \A i \in 1..Len(hist) :
        (~IsOn(Brightness) /\ LeftOn(i) /\ \A j \in 1..(i - 1) : ~LeftOn(j))
        => backupFile = File(to_string(Recent(i).pre))

\* C4: bup/bdown with increment d write exactly current+d when that lies in
\* [0,255], and otherwise leave the control file unchanged and report no
\* error, for every 16-bit d.
C4_IncrementRejectsSilently ==
    [][\A c \in {"bup", "bdown"} :
        Ran(c) =>
            LET d == IF c = "bup" THEN cfg.positive_increment
                     ELSE cfg.negative_increment
                sum == Brightness + d
            IN /\ ctrlFile' = IF sum \in 0..255 THEN to_string(sum) ELSE ctrlFile
               /\ outcome' = "success"]_vars

\* C5: `off` when Off and `on` when On change no file and no config, and
\* report an error; `on` when On does not need the backup file.
C5_RedundantPowerRequests ==
    [][((Ran("off") /\ current_state = "Off") \/ (Ran("on") /\ current_state = "On"))
        => /\ ctrlFile' = ctrlFile
           /\ backupFile' = backupFile
           /\ cfg' = cfg
           /\ outcome' = "error"]_vars

C5_Witness ==
    /\ args.cmd = "on"
    /\ outcome = "error"
    /\ current_state = "On"
    /\ ~backupFile.exists

\* C6: `bset x` with an integer x outside [0,255] changes neither file and
\* reports an error; with x in [0,255] the control file then holds exactly x
\* and the backup file is unchanged.
C6_BsetValidates ==
    [][\A x \in SetValues :
        (Ran("bset") /\ args'.rest = <<to_string(x)>>)
        => IF x \in 0..255
           THEN /\ ctrlFile' = to_string(x)
                /\ backupFile' = backupFile
                /\ outcome' = "success"
           ELSE /\ ctrlFile' = ctrlFile
                /\ backupFile' = backupFile
                /\ outcome' = "error"]_vars

C6_Witness ==
    /\ args = Argv("bset", <<to_string(300)>>)
    /\ outcome = "error"
    /\ Brightness = 250
    /\ count >= 2

\* C7: `toggle` from On stores the brightness in the backup and writes 0;
\* from Off it writes the backup value to the control file; from Dim it
\* changes neither file and reports nothing.  Two toggles in a row from On
\* return the brightness to its value.
C7_Toggle ==
    [][Ran("toggle") =>
        /\ current_state = "On"
            => /\ backupFile' = File(to_string(Brightness))
               /\ ctrlFile' = to_string(0)
               /\ outcome' = "success"
        /\ (current_state = "Off" /\ restore_brightness(backupFile).ok)
            => /\ ctrlFile' = to_string(restore_brightness(backupFile).val)
               /\ backupFile' = backupFile
               /\ outcome' = "success"
        /\ current_state = "Dim"
            => /\ ctrlFile' = ctrlFile
               /\ backupFile' = backupFile
               /\ outcome' = "silent"
        /\ (Len(hist) >= 1 /\ Recent(1).cmd = "toggle" /\ IsOn(Recent(1).pre))
            => ctrlFile' = to_string(Recent(1).pre)]_vars

C7_Witness ==
    /\ Len(hist) >= 2
    /\ Recent(2) = [cmd |-> "toggle", pre |-> 50]
    /\ Recent(1) = [cmd |-> "toggle", pre |-> 0]
    /\ ctrlFile = to_string(50)

\* C8: `dim` ends with brightness 1; from On it first stores the brightness
\* in the backup; from Off it leaves the backup file as it was (none is
\* created); when already Dim it writes neither file and prints nothing.
C8_Dim ==
    [][Ran("dim") =>
        /\ get_brightness(ctrlFile') = [ok |-> TRUE, val |-> 1]
        /\ current_state = "On"
            => /\ backupFile' = File(to_string(Brightness))
               /\ ctrlFile' = to_string(1)
               /\ outcome' = "success"
        /\ current_state = "Off"
            => /\ backupFile' = backupFile
               /\ ctrlFile' = to_string(1)
               /\ outcome' = "success"
        /\ current_state = "Dim"
            => /\ backupFile' = backupFile
               /\ ctrlFile' = ctrlFile
               /\ outcome' = "silent"]_vars

C8_Witness ==
    /\ Len(hist) >= 1
    /\ Recent(1) = [cmd |-> "dim", pre |-> 0]
    /\ ctrlFile = to_string(1)
    /\ ~backupFile.exists
    /\ outcome = "success"

SameTwice == Len(log) >= 2 /\ log[1].cmd = log[2].cmd
             /\ log[1].cmd \in {"off", "toggle", "cycle"}
             /\ IsOn(log[1].pre) /\ ~log[1].overlap

\* C9: two runs of the same command among off, toggle and cycle, started
\* from On with brightness v and run one after the other, leave the backup
\* file at v, and an `on` run after them leaves the control file at v; runs
\* that overlap can instead leave 0 or 1 in the backup file (C9_Witness).
C9_SequentialRunsKeepBackup ==
    /\ (AllDone /\ SameTwice /\ ~log[2].overlap /\ Len(log) = 2)
        => backupFile = File(to_string(log[1].pre))
    /\ (AllDone /\ SameTwice /\ ~log[2].overlap /\ Len(log) = 3
            /\ log[3].cmd = "on" /\ ~log[3].overlap)
        => ctrlFile = to_string(log[1].pre)

C9_Witness ==
    /\ AllDone
    /\ Len(log) = 3
    /\ log[1] = [cmd |-> "off", pre |-> 50, overlap |-> FALSE]
    /\ log[2] = [cmd |-> "off", pre |-> 50, overlap |-> TRUE]
    /\ log[3] = [cmd |-> "on", pre |-> 0, overlap |-> FALSE]
    /\ backupFile = File(to_string(0))
    /\ ctrlFile = to_string(0)

InRange(r) == r.ok /\ r.val \in 0..255

\* C10: from a control file in [0,255] and a backup file absent or in
\* [0,255], every sequence of commands leaves the control file, and the
\* backup file when present, holding a value in [0,255].
C10_RangeInvariant ==
    /\ InRange(get_brightness(ctrlFile))
    /\ backupFile.exists => InRange(restore_brightness(backupFile))

C10_Witness ==
    /\ args.cmd = "bdown"
    /\ cfg.negative_increment = -32768
    /\ outcome = "success"
    /\ Brightness = 250
    /\ backupFile.exists

====
